---- MODULE Spec2Model ----
(***************************************************************************)
(* Model of scripts/deadcode.py, the heuristic dead-code detector for Go   *)
(* sources: main() parses the flags, process() walks the tree, runs the    *)
(* definition pass and the reference pass, classifies the symbols and      *)
(* prints the report.                                                      *)
(*                                                                         *)
(* Text is modelled at the level the two regular expressions see it: a     *)
(* line is a sequence of lexemes, each either a maximal run of word        *)
(* characters (\w+, written as a string such as "helper") or one of the    *)
(* non-word lexemes " " (whitespace run), "(", ")", "{", "}", "*".         *)
(* The characters of a word are given by Chars, from which prefixes,       *)
(* letter case and the sort order of Python strings are computed.          *)
(***************************************************************************)
EXTENDS Integers, Sequences, FiniteSets, TLC

\* ------------------------------------------------------------------ bounds
\* Largest number of entries below the root of a modelled tree.
MaxFiles == 2

\* Largest --max-refs value tried (the smallest is -1).
MaxMaxRefs == 2

\* ------------------------------------------------------- characters, words
Upper == {"A","B","C","D","E","F","G","H","I","J","K","L","M",
          "N","O","P","Q","R","S","T","U","V","W","X","Y","Z"}

\* Code points of the characters that occur in the modelled names and paths.
CodeTable ==
    "." :> 46 @@ "/" :> 47 @@ "D" :> 68 @@ "E" :> 69
    @@ "F" :> 70 @@ "H" :> 72 @@ "M" :> 77 @@ "R" :> 82
    @@ "S" :> 83 @@ "T" :> 84 @@ "a" :> 97 @@ "b" :> 98
    @@ "c" :> 99 @@ "d" :> 100 @@ "e" :> 101 @@ "f" :> 102
    @@ "g" :> 103 @@ "h" :> 104 @@ "i" :> 105 @@ "j" :> 106
    @@ "l" :> 108 @@ "m" :> 109 @@ "n" :> 110 @@ "o" :> 111
    @@ "p" :> 112 @@ "r" :> 114 @@ "s" :> 115 @@ "t" :> 116
    @@ "u" :> 117 @@ "v" :> 118 @@ "x" :> 120 @@ "y" :> 121
    @@ "k" :> 107 @@ "q" :> 113 @@ "w" :> 119

Code(c) == CodeTable[c]

\* The characters of every word and path component of the model.
CharTable ==
    "helper" :> <<"h","e","l","p","e","r">>
    @@ "Helper" :> <<"H","e","l","p","e","r">>
    @@ "TestFoo" :> <<"T","e","s","t","F","o","o">>
    @@ "init" :> <<"i","n","i","t">>
    @@ "main" :> <<"m","a","i","n">>
    @@ "String" :> <<"S","t","r","i","n","g">>
    @@ "Error" :> <<"E","r","r","o","r">>
    @@ "apply" :> <<"a","p","p","l","y">>
    @@ "func" :> <<"f","u","n","c">>
    @@ "r" :> <<"r">>
    @@ "T" :> <<"T">>
    @@ "Test" :> <<"T","e","s","t">>
    @@ "/" :> <<"/">>
    @@ "home" :> <<"h","o","m","e">>
    @@ "proj" :> <<"p","r","o","j">>
    @@ "vendor" :> <<"v","e","n","d","o","r">>
    @@ "cmd" :> <<"c","m","d">>
    @@ "a.go" :> <<"a",".","g","o">>
    @@ "b.go" :> <<"b",".","g","o">>
    @@ "c.go" :> <<"c",".","g","o">>
    @@ "d.go" :> <<"d",".","g","o">>
    @@ "e.go" :> <<"e",".","g","o">>
    @@ "f.go" :> <<"f",".","g","o">>
    @@ "v.go" :> <<"v",".","g","o">>
    @@ "README.md" :> <<"R","E","A","D","M","E",".","m","d">>
    @@ "fa" :> <<"f","a">>
    @@ "fb" :> <<"f","b">>
    @@ "fc" :> <<"f","c">>
    @@ "fd" :> <<"f","d">>
    @@ "fe" :> <<"f","e">>
    @@ "ff" :> <<"f","f">>
    @@ "fg" :> <<"f","g">>
    @@ "fh" :> <<"f","h">>
    @@ "fi" :> <<"f","i">>
    @@ "fj" :> <<"f","j">>
    @@ "fk" :> <<"f","k">>
    @@ "fl" :> <<"f","l">>
    @@ "fm" :> <<"f","m">>
    @@ "fn" :> <<"f","n">>
    @@ "fo" :> <<"f","o">>
    @@ "fp" :> <<"f","p">>
    @@ "fq" :> <<"f","q">>
    @@ "fr" :> <<"f","r">>
    @@ "fs" :> <<"f","s">>
    @@ "ft" :> <<"f","t">>
    @@ "fu" :> <<"f","u">>
    @@ "fv" :> <<"f","v">>
    @@ "fw" :> <<"f","w">>
    @@ "fx" :> <<"f","x">>

Chars(w) == CharTable[w]

\* str.startswith(prefix)
StartsWith(w, prefix) ==
    LET cw == Chars(w)  cp == Chars(prefix) IN
    /\ Len(cp) <= Len(cw)
    /\ SubSeq(cw, 1, Len(cp)) = cp

\* str.endswith(suffix), on character sequences
EndsWithChars(cw, cs) ==
    /\ Len(cs) <= Len(cw)
    /\ SubSeq(cw, Len(cw) - Len(cs) + 1, Len(cw)) = cs

\* Variant: func_name.isupper(), every character upper-case.
IsExportedNameWhole(w) == \A i \in DOMAIN Chars(w) : Chars(w)[i] \in Upper

\* func_name[0].isupper()
IsExportedName(w) == Chars(w)[1] \in Upper

\* Python's < on sequences of code points (str) .
RECURSIVE CodesLess(_, _)
CodesLess(a, b) ==
    IF b = <<>> THEN FALSE
    ELSE IF a = <<>> THEN TRUE
    ELSE IF Code(Head(a)) # Code(Head(b)) THEN Code(Head(a)) < Code(Head(b))
    ELSE CodesLess(Tail(a), Tail(b))

StrLess(v, w) == CodesLess(Chars(v), Chars(w))

\* ------------------------------------------------------------------ lexemes
NonWord == {" ", "(", ")", "{", "}", "*"}
IsWord(x) == x \notin NonWord
IsSpace(x) == x = " "

\* Index of the first lexeme at or after i that is not whitespace
\* (Len(line) + 1 when there is none): the effect of \s* and \s+.
RECURSIVE SkipSpace(_, _)
SkipSpace(line, i) ==
    IF i <= Len(line) /\ IsSpace(line[i]) THEN SkipSpace(line, i + 1) ELSE i

\* Index of the first ")" at or after i, Len(line) + 1 when there is none:
\* where [^)]+ has to stop.
RECURSIVE FirstClose(_, _)
FirstClose(line, i) ==
    IF i <= Len(line) /\ line[i] # ")" THEN FirstClose(line, i + 1) ELSE i

NoMatch == ""

\* FUNC_PATTERN.match(line).group(1), NoMatch when the pattern fails:
\*   ^\s*func\s+(?:\([^)]+\)\s+)?(\w+)
FuncPatternMatch(line) ==
    LET f == SkipSpace(line, 1)
        a == SkipSpace(line, f + 1)          \* after  func\s+
        c == FirstClose(line, a + 1)         \* the receiver's ")"
        n == SkipSpace(line, c + 1)          \* after  \)\s+
    IN  IF ~(f <= Len(line) /\ line[f] = "func") THEN NoMatch
        ELSE IF ~(a > f + 1 /\ a <= Len(line)) THEN NoMatch
        ELSE IF IsWord(line[a]) THEN line[a]
        ELSE IF /\ line[a] = "("
                /\ c <= Len(line) /\ c >= a + 2
                /\ n > c + 1 /\ n <= Len(line)
                /\ IsWord(line[n])
             THEN line[n]
        ELSE NoMatch

\* [m.group(1) for m in WORD_BOUNDARY.finditer(line)]: the word runs in order.
Tokens(line) == SelectSeq(line, IsWord)

\* line.strip()
RECURSIVE StripLeft(_)
StripLeft(line) ==
    IF line # <<>> /\ IsSpace(Head(line)) THEN StripLeft(Tail(line)) ELSE line

RECURSIVE StripRight(_)
StripRight(line) ==
    IF line # <<>> /\ IsSpace(line[Len(line)])
    THEN StripRight(SubSeq(line, 1, Len(line) - 1)) ELSE line

Strip(line) == StripRight(StripLeft(line))

\* -------------------------------------------------------------- lines, tree
\* Line shapes of Go sources, for a function name n.
Def(n)     == <<"func", " ", n, "(", ")", " ", "{">>
Method(n)  == <<"func", " ", "(", "r", " ", "*", "T", ")", " ", n, "(", ")", " ", "{">>
DefSelf(n) == <<"func", " ", n, "(", ")", " ", "{", " ", n, "(", ")", " ", "}">>
Call(n)    == <<" ", n, "(", ")">>
Close      == <<"}">>

\* Function names tried: an ordinary one, an exported one, a test function
\* and the four names process() always skips.
Names == {"helper", "Helper", "TestFoo", "init", "main", "String", "Error"}

\* An entry below the root: its path relative to the root, its lines, and
\* what read_file gets from it: `fails` when open() or decoding raises,
\* after `yields` lines have been yielded (0 when open() itself raises).
File(path, lines) == [path |-> path, lines |-> lines, fails |-> FALSE, yields |-> Len(lines)]
Broken(path, lines, k) == [path |-> path, lines |-> lines, fails |-> TRUE, yields |-> k]

\* The entries a tree about the name n is made of.
Catalog(n) ==
    { File(<<"a.go">>, <<Def(n), Close>>),
      File(<<"cmd", "b.go">>, <<Call(n)>>),
      File(<<"c.go">>, <<DefSelf(n)>>),
      File(<<"d.go">>, <<Method(n), Call(n), Call(n), Close, Def("apply")>>),
      Broken(<<"e.go">>, <<Def(n), Call(n)>>, 1),
      Broken(<<"f.go">>, <<>>, 0),
      File(<<"vendor", "v.go">>, <<Def(n), Call(n)>>),
      File(<<"README.md">>, <<Call(n)>>) }

\* os.getcwd(), as path parts
Roots == { <<"/", "home", "proj">>, <<"/", "home", "vendor", "proj">> }

Trees ==
    { [root |-> r, entries |-> es] :
        r \in Roots,
        es \in UNION { {s \in SUBSET Catalog(n) : Cardinality(s) <= MaxFiles} : n \in Names } }

\* ----------------------------------------------------------- larger trees
\* Largest number of functions declared in a tree of the larger kind.
MaxSymbols == 22

\* Lower-case function names, in ascending order.
ManyNames ==
    << "fa", "fb", "fc", "fd", "fe", "ff", "fg", "fh", "fi", "fj", "fk", "fl",
       "fm", "fn", "fo", "fp", "fq", "fr", "fs", "ft", "fu", "fv", "fw", "fx" >>

\* A tree that declares the first n names in a.go, last name first, and
\* calls the first k of them once each in b.go.
ManyTree(n, k) ==
    [root |-> <<"/", "home", "proj">>,
     entries |-> { File(<<"a.go">>, [i \in 1..n |-> Def(ManyNames[n + 1 - i])]),
                   File(<<"b.go">>, [i \in 1..k |-> Call(ManyNames[i])]) }]

\* Trees in which every declared function is called, and trees that declare
\* MaxSymbols functions of which some are called.
ManyTrees ==
    {ManyTree(k, k) : k \in 0..MaxSymbols} \cup {ManyTree(MaxSymbols, k) : k \in 0..MaxSymbols}

\* ------------------------------------------------------------- find_files
GoSuffix == <<".", "g", "o">>

\* Variant: the walk takes every entry, whatever its name.
MatchesAnything(name) == TRUE

\* fnmatch of a file name against "*.go"
MatchesPattern(name) == EndsWithChars(Chars(name), GoSuffix)

excluded_dirs == {"vendor", ".git", "testdata", "mocks"}

Parts(seq) == {seq[i] : i \in DOMAIN seq}

\* path.parts of the path rglob yields: the root's parts, then the entry's
HasExcludedPart(root, rel) == Parts(root \o rel) \cap excluded_dirs # {}

\* < on relative paths: part by part, each part as a string
RECURSIVE PathLess(_, _)
PathLess(p, q) ==
    IF q = <<>> THEN FALSE
    ELSE IF p = <<>> THEN TRUE
    ELSE IF Head(p) # Head(q) THEN StrLess(Head(p), Head(q))
    ELSE PathLess(Tail(p), Tail(q))

\* tuple(sorted(results))
RECURSIVE SortPaths(_)
SortPaths(S) ==
    IF S = {} THEN <<>>
    ELSE LET m == CHOOSE p \in S : \A q \in S \ {p} : PathLess(p, q)
         IN  <<m>> \o SortPaths(S \ {m})

\* The orders in which pathlib's rglob may yield the matching entries: the
\* order of a directory listing is the file system's, not the program's.
rglob(tree) ==
    LET matching == {e.path : e \in {x \in tree.entries : MatchesPattern(x.path[Len(x.path)])}}
        n == Cardinality(matching)
    IN  {w \in [1..n -> matching] : \A i, j \in 1..n : w[i] = w[j] => i = j}

\* results, in the order of the walk: the paths without an excluded part
WalkResults(tree, walk) == SelectSeq(walk, LAMBDA p : ~HasExcludedPart(tree.root, p))

\* Variant: the results are returned in the order of the walk.
find_files_unsorted(tree, walk) == WalkResults(tree, walk)

\* find_files(os.getcwd(), "*.go") when rglob yields its paths as `walk`
find_files(tree, walk) == SortPaths(Parts(WalkResults(tree, walk)))

\* ---------------------------------------------------------------- read_file
EntryAt(tree, path) == CHOOSE e \in tree.entries : e.path = path

\* Variant: a file whose read fails yields nothing at all.
read_file_all_or_nothing(tree, path) ==
    LET e == EntryAt(tree, path)
    IN  IF e.fails THEN <<>> ELSE [i \in 1..Len(e.lines) |-> <<i, e.lines[i]>>]

\* The (number, line) pairs read_file yields for a path.
read_file(tree, path) ==
    LET e == EntryAt(tree, path)
    IN  [i \in 1..e.yields |-> <<i, e.lines[i]>>]

\* Whether read_file ends in its except branch (one [WARN] line).
ReadFails(tree, path) == EntryAt(tree, path).fails

\* ---------------------------------------------------------------- messages
\* A line on the error stream.
Msg(level, text, path, n) == [level |-> level, text |-> text, path |-> path, n |-> n]

\* log(msg, verbose): one [INFO] line when verbose, nothing otherwise
log(text, n, verbose) == IF verbose THEN <<Msg("INFO", text, <<>>, n)>> ELSE <<>>

\* The [WARN] line of read_file's except branch, when the read fails.
Warning(tree, path) ==
    IF ReadFails(tree, path) THEN <<Msg("WARN", "Could not read", path, 0)>> ELSE <<>>

\* -------------------------------------------------- find_function_definitions
\* The definitions one file contributes, in line order:
\* (func_name, (str(filename), number)) for every line FUNC_PATTERN matches.
FileDefinitions(tree, path) ==
    LET pairs   == read_file(tree, path)
        matched == SelectSeq(pairs, LAMBDA p : FuncPatternMatch(p[2]) # NoMatch)
    IN  [i \in DOMAIN matched |->
            [name |-> FuncPatternMatch(matched[i][2]), site |-> <<path, matched[i][1]>>]]

RECURSIVE AllDefinitions(_, _)
AllDefinitions(tree, fileseq) ==
    IF fileseq = <<>> THEN <<>>
    ELSE FileDefinitions(tree, Head(fileseq)) \o AllDefinitions(tree, Tail(fileseq))

SitesOf(defs, name) ==
    LET mine == SelectSeq(defs, LAMBDA d : d.name = name)
    IN  [i \in DOMAIN mine |-> mine[i].site]

\* functions: func_name -> [(filename, line_number), ...]
find_function_definitions(tree, fileseq) ==
    LET defs == AllDefinitions(tree, fileseq)
    IN  [name \in {defs[i].name : i \in DOMAIN defs} |-> SitesOf(defs, name)]

\* The error-stream lines of one pass of read_file over the files.
RECURSIVE Warnings(_, _)
Warnings(tree, fileseq) ==
    IF fileseq = <<>> THEN <<>>
    ELSE Warning(tree, Head(fileseq)) \o Warnings(tree, Tail(fileseq))

\* ------------------------------------------------------------ count_references
\* Width of the context snippet kept per reference: line.strip()[:80]
ContextWidth == 80

RECURSIVE CharLen(_)
CharLen(line) ==
    IF line = <<>> THEN 0
    ELSE (IF IsWord(Head(line)) THEN Len(Chars(Head(line))) ELSE 1) + CharLen(Tail(line))

\* line.strip()[:80]; a stripped line within the width is kept whole, a
\* longer one is cut back to the lexemes that fit.
RECURSIVE Truncate(_, _)
Truncate(line, width) ==
    IF line = <<>> \/ CharLen(<<Head(line)>>) > width THEN <<>>
    ELSE <<Head(line)>> \o Truncate(Tail(line), width - CharLen(<<Head(line)>>))

Context(line) == Truncate(Strip(line), ContextWidth)

\* Variant: the reference pass leaves declaration lines out of the count.
LineReferencesSkipDefs(path, number, line, func_set) ==
    LET known == IF FuncPatternMatch(line) # NoMatch THEN <<>>
                 ELSE SelectSeq(Tokens(line), LAMBDA w : w \in func_set)
    IN  [i \in DOMAIN known |->
            [word |-> known[i], loc |-> <<path, number>>, context |-> Context(line)]]

\* The references one line contributes: one per token that is a known name.
LineReferences(path, number, line, func_set) ==
    LET known == SelectSeq(Tokens(line), LAMBDA w : w \in func_set)
    IN  [i \in DOMAIN known |->
            [word |-> known[i], loc |-> <<path, number>>, context |-> Context(line)]]

\* The references of the pairs from the i-th on, in line order.
RECURSIVE PairsReferencesFrom(_, _, _, _)
PairsReferencesFrom(path, pairs, i, func_set) ==
    IF i > Len(pairs) THEN <<>>
    ELSE LineReferences(path, pairs[i][1], pairs[i][2], func_set)
            \o PairsReferencesFrom(path, pairs, i + 1, func_set)

PairsReferences(path, pairs, func_set) == PairsReferencesFrom(path, pairs, 1, func_set)

RECURSIVE AllReferences(_, _, _)
AllReferences(tree, fileseq, func_set) ==
    IF fileseq = <<>> THEN <<>>
    ELSE PairsReferences(Head(fileseq), read_file(tree, Head(fileseq)), func_set)
            \o AllReferences(tree, Tail(fileseq), func_set)

RefsOf(refs, word) ==
    LET mine == SelectSeq(refs, LAMBDA r : r.word = word)
    IN  [i \in DOMAIN mine |-> [loc |-> mine[i].loc, context |-> mine[i].context]]

\* references: func_name -> [(filename:line, context), ...], keys created on
\* first occurrence; counters[word] is the number of occurrences.
count_references(tree, fileseq, func_set) ==
    LET refs == AllReferences(tree, fileseq, func_set)
    IN  [word \in {refs[i].word : i \in DOMAIN refs} |-> RefsOf(refs, word)]

\* Every 50th file is announced when verbose.
ScanLogEvery == 50

\* The error-stream lines of the reference pass before its closing log line.
RECURSIVE ScanMessages(_, _, _, _)
ScanMessages(tree, fileseq, i, verbose) ==
    IF i > Len(fileseq) THEN <<>>
    ELSE (IF verbose /\ i % ScanLogEvery = 0
          THEN log("Scanning file", i, verbose) ELSE <<>>)
         \o Warning(tree, fileseq[i])
         \o ScanMessages(tree, fileseq, i + 1, verbose)

\* ------------------------------------------------------ process(): analysis
\* Variant: the names are taken in descending order.
RECURSIVE SortNamesDescending(_)
SortNamesDescending(S) ==
    IF S = {} THEN <<>>
    ELSE LET m == CHOOSE v \in S : \A w \in S \ {v} : CodesLess(CharTable[w], CharTable[v])
         IN  <<m>> \o SortNamesDescending(S \ {m})

\* sorted(functions.items()): the names in ascending str order
RECURSIVE SortNames(_)
SortNames(S) ==
    IF S = {} THEN <<>>
    ELSE LET m == CHOOSE v \in S : \A w \in S \ {v} : StrLess(v, w)
         IN  <<m>> \o SortNames(S \ {m})

TestPrefix == "Test"

\* Variant: the test-prefix rule is missing.
SkipAsTestNever(name, a) == FALSE

\* not include_tests and func_name.startswith("Test")
SkipAsTest(name, a) == ~a.include_tests /\ StartsWith(name, TestPrefix)

\* not include_exported and func_name[0].isupper()
SkipAsExported(name, a) == ~a.include_exported /\ IsExportedName(name)

\* Variant: only the lower-case conventional names are skipped.
SkipAsCommonShort(name) == name \in {"init", "main"}

\* func_name in ("init", "main", "String", "Error")
SkipNames == {"init", "main", "String", "Error"}
SkipAsCommon(name) == name \in SkipNames

Skipped(name, a) == SkipAsTest(name, a) \/ SkipAsExported(name, a) \/ SkipAsCommon(name)

\* counters.get(func_name, 0)
RefCount(cnt, name) == IF name \in DOMAIN cnt THEN cnt[name] ELSE 0

\* Variant: a symbol counts as dead only below its number of definitions.
IsDeadStrict(ref_count, def_count) == ref_count < def_count

\* ref_count <= def_count
IsDead(ref_count, def_count) == ref_count <= def_count

\* elif ref_count <= max_refs + def_count
IsLowUsage(ref_count, def_count, max_refs) ==
    ~IsDead(ref_count, def_count) /\ ref_count <= max_refs + def_count

Candidate(name, funs, cnt) ==
    [name |-> name, ref_count |-> RefCount(cnt, name),
     def_count |-> Len(funs[name]), definitions |-> funs[name]]

\* dead_candidates, in the order of the loop
DeadCandidates(funs, cnt, a) ==
    LET kept == SelectSeq(SortNames(DOMAIN funs), LAMBDA n :
                    /\ ~Skipped(n, a)
                    /\ IsDead(RefCount(cnt, n), Len(funs[n])))
    IN  [i \in DOMAIN kept |-> Candidate(kept[i], funs, cnt)]

\* low_usage, in the order of the loop
LowUsage(funs, cnt, a) ==
    LET kept == SelectSeq(SortNames(DOMAIN funs), LAMBDA n :
                    /\ ~Skipped(n, a)
                    /\ IsLowUsage(RefCount(cnt, n), Len(funs[n]), a.max_refs))
    IN  [i \in DOMAIN kept |-> Candidate(kept[i], funs, cnt)]

\* -------------------------------------------------------- process(): report
\* A line on stdout: its kind and the values formatted into it.
Out(kind, path, num, name, extra, ctx) ==
    [kind |-> kind, path |-> path, num |-> num, name |-> name, extra |-> extra, ctx |-> ctx]
Text(kind) == Out(kind, <<>>, 0, "", 0, <<>>)
Count(kind, n) == Out(kind, <<>>, n, "", 0, <<>>)

\* The report header and the four statistics lines.
Banner(fileseq, funs, dead, low, a) ==
    << Text("blank"), Text("rule="), Text("DEAD CODE ANALYSIS REPORT"), Text("rule="),
       Text("blank"), Text("Statistics:"),
       Count("Go files scanned", Len(fileseq)),
       Count("Functions found", Cardinality(DOMAIN funs)),
       Count("Potentially dead", Len(dead)),
       Out("Low usage", <<>>, Len(low), "", a.max_refs, <<>>) >>

\* One line per definition site of a candidate.
SiteLines(kind, c, extra) ==
    [i \in DOMAIN c.definitions |->
        Out(kind, c.definitions[i][1], c.definitions[i][2], c.name, extra, <<>>)]

RECURSIVE RefLines(_)
RefLines(refs) ==
    IF refs = <<>> THEN <<>>
    ELSE << Out("ref location", Head(refs).loc[1], Head(refs).loc[2], "", 0, <<>>),
            Out("ref context", <<>>, 0, "", 0, Head(refs).context) >>
         \o RefLines(Tail(refs))

\* if show_refs and func_name in references: the listing and a blank line
RefListing(kind, name, refs, a) ==
    IF a.show_refs /\ name \in DOMAIN refs
    THEN <<Count(kind, Len(refs[name]))>> \o RefLines(refs[name]) \o <<Text("blank")>>
    ELSE <<>>

RECURSIVE DeadLines(_, _, _)
DeadLines(dead, refs, a) ==
    IF dead = <<>> THEN <<>>
    ELSE SiteLines("dead site", Head(dead), 0)
         \o RefListing("References", Head(dead).name, refs, a)
         \o DeadLines(Tail(dead), refs, a)

DeadSection(dead, refs, a) ==
    IF dead # <<>>
    THEN << Text("blank"), Text("rule-"), Text("POTENTIALLY DEAD CODE"), Text("rule-") >>
         \o DeadLines(dead, refs, a)
    ELSE << Text("blank"), Text("No dead code candidates found") >>

\* The cap on the low-usage entries shown without --all-low-usage.
DisplayLimit == 20

Min(x, y) == IF x <= y THEN x ELSE y

RECURSIVE LowLines(_, _, _)
LowLines(low, refs, a) ==
    IF low = <<>> THEN <<>>
    ELSE SiteLines("low site", Head(low), Head(low).ref_count - Head(low).def_count)
         \o RefListing("All references", Head(low).name, refs, a)
         \o LowLines(Tail(low), refs, a)

\* Variant: the suppression note is printed from the limit on, not above it.
LowSectionNoteAtLimit(low, refs, a) ==
    IF low # <<>> /\ ~a.summary
    THEN LET display_count == IF a.all_low_usage THEN Len(low) ELSE Min(DisplayLimit, Len(low))
         IN  << Text("blank"), Text("rule-"),
                Out("LOW USAGE FUNCTIONS", <<>>, 0, "", a.max_refs, <<>>), Text("rule-") >>
             \o LowLines(SubSeq(low, 1, display_count), refs, a)
             \o (IF ~a.all_low_usage /\ Len(low) >= DisplayLimit
                 THEN <<Count("more", Len(low) - DisplayLimit)>> ELSE <<>>)
    ELSE <<>>

LowSection(low, refs, a) ==
    IF low # <<>> /\ ~a.summary
    THEN LET display_count == IF a.all_low_usage THEN Len(low) ELSE Min(DisplayLimit, Len(low))
         IN  << Text("blank"), Text("rule-"),
                Out("LOW USAGE FUNCTIONS", <<>>, 0, "", a.max_refs, <<>>), Text("rule-") >>
             \o LowLines(SubSeq(low, 1, display_count), refs, a)
             \o (IF ~a.all_low_usage /\ Len(low) > DisplayLimit
                 THEN <<Count("more", Len(low) - DisplayLimit)>> ELSE <<>>)
    ELSE <<>>

\* The closing note.
Caveat ==
    << Text("blank"), Text("rule="),
       Text("NOTE: Exported functions (capitalized) are excluded by default."),
       Text("Use --include-exported to include them."),
       Text("False positives may occur for reflection, interfaces, or external usage."),
       Text("rule="), Text("blank") >>

\* Variant: the summary flag does not stop the report after the banner.
ReportWithDetails(fileseq, funs, dead, low, refs, a) ==
    Banner(fileseq, funs, dead, low, a)
    \o DeadSection(dead, refs, a) \o LowSection(low, refs, a) \o Caveat

\* Everything process() prints to stdout from line 158 on.
Report(fileseq, funs, dead, low, refs, a) ==
    Banner(fileseq, funs, dead, low, a)
    \o (IF a.summary THEN <<>>
        ELSE DeadSection(dead, refs, a) \o LowSection(low, refs, a) \o Caveat)

\* -------------------------------------------------------------------- state
VARIABLES
    pc,               \* where the run is: "main", "process", "definitions",
                      \* "references", "analyze", "print", "done"
    argv,             \* the command line
    fs,               \* the tree below os.getcwd()
    args,             \* the parsed flags (argparse defaults before parsing)
    files,            \* process(): files
    functions,        \* process(): functions
    counters,         \* process(): counters
    references,       \* process(): references
    dead_candidates,  \* process(): dead_candidates
    low_usage,        \* process(): low_usage
    stdout,           \* the lines printed to stdout
    stderr,           \* the lines printed to stderr
    io,               \* file-system calls made so far: rglob and open
    exit_code,        \* the exit status, -1 while running
    run,              \* 1 in the first invocation, 2 in a repeated one
    first_stdout      \* what the first invocation printed to stdout

vars == <<pc, argv, fs, args, files, functions, counters, references,
          dead_candidates, low_usage, stdout, stderr, io, exit_code,
          run, first_stdout>>

\* --max-refs values: type=int accepts any integer, a negative one included;
\* a value int() rejects is the remaining case.
MaxRefsValues == -1..MaxMaxRefs

Argvs ==
    [max_refs : [valid : {TRUE}, value : MaxRefsValues] \cup {[valid |-> FALSE, value |-> 0]},
     verbose : BOOLEAN, include_exported : BOOLEAN, include_tests : BOOLEAN,
     summary : BOOLEAN, show_refs : BOOLEAN, all_low_usage : BOOLEAN]

\* The defaults of the parser: store_true flags off, --max-refs 1.
DefaultArgs ==
    [max_refs |-> 1, verbose |-> FALSE, include_exported |-> FALSE, include_tests |-> FALSE,
     summary |-> FALSE, show_refs |-> FALSE, all_low_usage |-> FALSE]

EmptyMap == [x \in {} |-> <<>>]

Init ==
    /\ pc = "main"
    /\ argv \in Argvs
    /\ fs \in Trees
    /\ args = DefaultArgs
    /\ files = <<>>
    /\ functions = EmptyMap
    /\ counters = EmptyMap
    /\ references = EmptyMap
    /\ dead_candidates = <<>>
    /\ low_usage = <<>>
    /\ stdout = <<>>
    /\ stderr = <<>>
    /\ io = <<>>
    /\ exit_code = -1
    /\ run = 1
    /\ first_stdout = <<>>

\* parser.parse_args() when int() rejects the --max-refs value:
\* usage and error on stderr, exit status 2.
ParseError ==
    /\ pc = "main"
    /\ ~argv.max_refs.valid
    /\ stderr' = stderr \o << Msg("usage", "usage", <<>>, 0),
                              Msg("ERROR", "argument --max-refs: invalid int value", <<>>, 0) >>
    /\ exit_code' = 2
    /\ pc' = "done"
    /\ UNCHANGED <<argv, fs, args, files, functions, counters, references,
                   dead_candidates, low_usage, stdout, io>>
    /\ UNCHANGED <<run, first_stdout>>

\* args = parser.parse_args(); process(args)
ParseArgs ==
    /\ pc = "main"
    /\ argv.max_refs.valid
    /\ args' = [max_refs |-> argv.max_refs.value, verbose |-> argv.verbose,
                include_exported |-> argv.include_exported,
                include_tests |-> argv.include_tests, summary |-> argv.summary,
                show_refs |-> argv.show_refs, all_low_usage |-> argv.all_low_usage]
    /\ pc' = "process"
    /\ UNCHANGED <<argv, fs, files, functions, counters, references,
                   dead_candidates, low_usage, stdout, stderr, io, exit_code>>
    /\ UNCHANGED <<run, first_stdout>>

Rglob == [op |-> "rglob", path |-> <<>>]
Open(path) == [op |-> "open", path |-> path]
Opens(fileseq) == [i \in DOMAIN fileseq |-> Open(fileseq[i])]

\* process(), lines 101-117: the walk, and the return when it finds nothing
FindFiles ==
    /\ pc = "process"
    /\ \E walk \in rglob(fs) :
       LET found == find_files(fs, walk)
       IN  /\ files' = found
           /\ io' = io \o <<Rglob>>
           /\ IF files' = <<>>
              THEN /\ stderr' = stderr
                         \o log("Starting dead code detection...", 0, args.verbose)
                         \o log("Found Go files", Len(files'), args.verbose)
                         \o <<Msg("ERROR", "No Go files found in current directory", <<>>, 0)>>
                   /\ pc' = "done"
                   /\ exit_code' = 0
              ELSE /\ stderr' = stderr
                         \o log("Starting dead code detection...", 0, args.verbose)
                         \o log("Found Go files", Len(files'), args.verbose)
                   /\ pc' = "definitions"
                   /\ UNCHANGED exit_code
    /\ UNCHANGED <<argv, fs, args, functions, counters, references,
                   dead_candidates, low_usage, stdout>>
    /\ UNCHANGED <<run, first_stdout>>

\* process(), lines 119-124: the definition pass, and the return when it
\* finds no function
FindDefinitions ==
    /\ pc = "definitions"
    /\ functions' = find_function_definitions(fs, files)
    /\ io' = io \o Opens(files)
    /\ IF DOMAIN functions' = {}
       THEN /\ stderr' = stderr \o Warnings(fs, files)
                  \o log("Found unique function/method names", 0, args.verbose)
                  \o <<Msg("ERROR", "No functions found", <<>>, 0)>>
            /\ pc' = "done"
            /\ exit_code' = 0
       ELSE /\ stderr' = stderr \o Warnings(fs, files)
                  \o log("Found unique function/method names",
                         Cardinality(DOMAIN functions'), args.verbose)
            /\ pc' = "references"
            /\ UNCHANGED exit_code
    /\ UNCHANGED <<argv, fs, args, files, counters, references,
                   dead_candidates, low_usage, stdout>>
    /\ UNCHANGED <<run, first_stdout>>

\* process(), line 127: the reference pass
CountReferences ==
    /\ pc = "references"
    /\ references' = count_references(fs, files, DOMAIN functions)
    /\ counters' = [w \in DOMAIN references' |-> Len(references'[w])]
    /\ io' = io \o Opens(files)
    /\ stderr' = stderr \o ScanMessages(fs, files, 1, args.verbose)
                        \o log("Scanned files for references", Len(files), args.verbose)
    /\ pc' = "analyze"
    /\ UNCHANGED <<argv, fs, args, files, functions,
                   dead_candidates, low_usage, stdout, exit_code>>
    /\ UNCHANGED <<run, first_stdout>>

\* process(), lines 129-155: the classification loop
Analyze ==
    /\ pc = "analyze"
    /\ dead_candidates' = DeadCandidates(functions, counters, args)
    /\ low_usage' = LowUsage(functions, counters, args)
    /\ pc' = "print"
    /\ UNCHANGED <<argv, fs, args, files, functions, counters, references,
                   stdout, stderr, io, exit_code>>
    /\ UNCHANGED <<run, first_stdout>>

\* process(), lines 157-209: the report
PrintReport ==
    /\ pc = "print"
    /\ stdout' = stdout \o Report(files, functions, dead_candidates, low_usage, references, args)
    /\ pc' = "done"
    /\ exit_code' = 0
    /\ UNCHANGED <<argv, fs, args, files, functions, counters, references,
                   dead_candidates, low_usage, stderr, io>>
    /\ UNCHANGED <<run, first_stdout>>

Next ==
    \/ ParseError
    \/ ParseArgs
    \/ FindFiles
    \/ FindDefinitions
    \/ CountReferences
    \/ Analyze
    \/ PrintReport

Spec == Init /\ [][Next]_vars

\* The run is sequential and always takes its next step.
FairSpec == Spec /\ WF_vars(Next)

\* A second invocation with the same command line over the unchanged tree:
\* every variable of the process starts afresh, nothing is carried over.
Rerun ==
    /\ pc = "done"
    /\ run = 1
    /\ run' = 2
    /\ first_stdout' = stdout
    /\ pc' = "main"
    /\ args' = DefaultArgs
    /\ files' = <<>>
    /\ functions' = EmptyMap
    /\ counters' = EmptyMap
    /\ references' = EmptyMap
    /\ dead_candidates' = <<>>
    /\ low_usage' = <<>>
    /\ stdout' = <<>>
    /\ stderr' = <<>>
    /\ io' = <<>>
    /\ exit_code' = -1
    /\ UNCHANGED <<argv, fs>>

NextTwice == Next \/ Rerun

\* Runs over the larger trees, without --verbose: the flag adds lines to
\* stderr only.
InitMany ==
    /\ pc = "main"
    /\ argv \in {a \in Argvs : ~a.verbose}
    /\ fs \in ManyTrees
    /\ args = DefaultArgs
    /\ files = <<>>
    /\ functions = EmptyMap
    /\ counters = EmptyMap
    /\ references = EmptyMap
    /\ dead_candidates = <<>>
    /\ low_usage = <<>>
    /\ stdout = <<>>
    /\ stderr = <<>>
    /\ io = <<>>
    /\ exit_code = -1
    /\ run = 1
    /\ first_stdout = <<>>

SpecMany == InitMany /\ [][Next]_vars

\* The first of two invocations, without --verbose: the flag adds lines to
\* stderr only.
InitTwice ==
    /\ pc = "main"
    /\ argv \in {a \in Argvs : ~a.verbose}
    /\ fs \in Trees
    /\ args = DefaultArgs
    /\ files = <<>>
    /\ functions = EmptyMap
    /\ counters = EmptyMap
    /\ references = EmptyMap
    /\ dead_candidates = <<>>
    /\ low_usage = <<>>
    /\ stdout = <<>>
    /\ stderr = <<>>
    /\ io = <<>>
    /\ exit_code = -1
    /\ run = 1
    /\ first_stdout = <<>>

\* Two invocations in a row.
SpecTwice == InitTwice /\ [][NextTwice]_vars

TypeOK ==
    /\ pc \in {"main", "process", "definitions", "references", "analyze", "print", "done"}
    /\ exit_code \in {-1, 0, 2}

\* =================================================================== claims
\* What the properties below read off the state.
DeadNames == {dead_candidates[i].name : i \in DOMAIN dead_candidates}
LowNames == {low_usage[i].name : i \in DOMAIN low_usage}

\* The names on the per-definition-site lines of the printed report.
PrintedNames(kind) == {stdout[i].name : i \in {j \in DOMAIN stdout : stdout[j].kind = kind}}

\* The classification loop has run.
Analyzed == pc = "print" \/ (pc = "done" /\ DOMAIN functions # {})

\* Both passes have run.
Scanned == pc \in {"analyze", "print"} \/ (pc = "done" /\ DOMAIN functions # {})

\* The flags as given on the command line.
GivenMaxRefs == argv.max_refs.value

\* The symbol is not removed by any of the three exclusion rules.
PassesExclusions(n) ==
    /\ ~(StartsWith(n, "Test") /\ ~argv.include_tests)
    /\ ~(Chars(n)[1] \in Upper /\ ~argv.include_exported)
    /\ n \notin {"init", "main", "String", "Error"}

Occurrences(n) == IF n \in DOMAIN counters THEN counters[n] ELSE 0
DefinitionSites(n) == Len(functions[n])

\* C1: a symbol that passes the exclusion rules is in the Dead list iff
\* occ <= defs, in the LowUsage list iff defs < occ <= defs + max_refs (its
\* reported extra being occ - defs), and never in both.
Thm_C1 ==
    Analyzed =>
        \A n \in DOMAIN functions :
            PassesExclusions(n) =>
                LET occ == Occurrences(n)
                    defs == DefinitionSites(n)
                IN  /\ (n \in DeadNames) <=> (occ <= defs)
                    /\ (n \in LowNames) <=> (defs < occ /\ occ <= defs + GivenMaxRefs)
                    /\ ~(n \in DeadNames /\ n \in LowNames)
                    /\ \A i \in DOMAIN low_usage :
                          low_usage[i].name = n =>
                              low_usage[i].ref_count - low_usage[i].def_count = occ - defs
                    /\ \A i \in DOMAIN stdout :
                          (stdout[i].kind = "low site" /\ stdout[i].name = n) =>
                              stdout[i].extra = occ - defs

\* C1 witness: with max-refs 1, helper has one definition and two
\* occurrences and is printed as a LowUsage entry with 1 extra reference.
Wit_C1 ==
    /\ pc = "done"
    /\ GivenMaxRefs = 1
    /\ "helper" \in DOMAIN functions
    /\ DefinitionSites("helper") = 1
    /\ Occurrences("helper") = 2
    /\ "helper" \in LowNames
    /\ \E i \in DOMAIN stdout :
          stdout[i].kind = "low site" /\ stdout[i].name = "helper" /\ stdout[i].extra = 1

\* C2: after both passes every symbol of the table has at least one
\* definition site and at least as many occurrences as definition sites.
Thm_C2 ==
    Scanned =>
        \A n \in DOMAIN functions :
            /\ Len(functions[n]) >= 1
            /\ Occurrences(n) >= Len(functions[n])

\* C2 witness: both passes have run over a tree with a file whose read
\* fails, and a symbol has more occurrences than definition sites.
Wit_C2 ==
    /\ pc = "analyze"
    /\ \E e \in fs.entries : e.fails /\ \E i \in DOMAIN files : files[i] = e.path
    /\ \E n \in DOMAIN functions : Occurrences(n) > Len(functions[n])

\* The lines read_file hands to the passes, as (path, number, line).
ReadLines ==
    UNION { {<<e.path, i, e.lines[i]>> : i \in 1..e.yields} :
              e \in {x \in fs.entries : \E k \in DOMAIN files : files[k] = x.path} }

\* The name occurs as a token on a read line that does not declare it.
OccursElsewhere(n) ==
    \E l \in ReadLines :
        /\ \E i \in DOMAIN l[3] : l[3][i] = n
        /\ <<l[1], l[2]>> \notin {functions[n][i] : i \in DOMAIN functions[n]}

\* C3: a symbol that passes the exclusion rules is Dead iff its name occurs
\* on no line other than its own declaration lines.
Claim_C3 ==
    Analyzed =>
        \A n \in DOMAIN functions :
            PassesExclusions(n) => ((n \in DeadNames) <=> ~OccursElsewhere(n))

\* C4: a name with the test prefix is listed only if include-tests is set,
\* a name with a leading uppercase letter only if include-exported is set.
Thm_C4 ==
    \A n \in DeadNames \cup LowNames \cup PrintedNames("dead site") \cup PrintedNames("low site") :
        /\ StartsWith(n, "Test") => argv.include_tests
        /\ Chars(n)[1] \in Upper => argv.include_exported

\* C4 witness: a test function with no reference, exported names included
\* but tests not, and the report has been printed.
Wit_C4 ==
    /\ pc = "done"
    /\ stdout # <<>>
    /\ "TestFoo" \in DOMAIN functions
    /\ Occurrences("TestFoo") = DefinitionSites("TestFoo")
    /\ argv.include_exported /\ ~argv.include_tests

\* C5: init, main, String and Error are never a Dead or LowUsage entry.
Thm_C5 ==
    (DeadNames \cup LowNames \cup PrintedNames("dead site") \cup PrintedNames("low site"))
        \cap {"init", "main", "String", "Error"} = {}

\* C5 witness: Error is declared and nowhere referenced, exported names and
\* tests are included, and the report has been printed.
Wit_C5 ==
    /\ pc = "done"
    /\ stdout # <<>>
    /\ "Error" \in DOMAIN functions
    /\ Occurrences("Error") = DefinitionSites("Error")
    /\ argv.include_exported /\ argv.include_tests /\ ~argv.summary

\* C6: a negative max-refs is rejected before scanning: no file-system call,
\* nothing on stdout, and an error on the error stream at the end.
Claim_C6 ==
    (argv.max_refs.valid /\ argv.max_refs.value < 0) =>
        /\ io = <<>>
        /\ stdout = <<>>
        /\ pc = "done" => \E i \in DOMAIN stderr : stderr[i].level = "ERROR"

\* A read line matches the declaration pattern.
HasReadDefinition == \E l \in ReadLines : FuncPatternMatch(l[3]) # NoMatch

\* The four statistics lines are on stdout.
BannerPrinted ==
    \A k \in {"Go files scanned", "Functions found", "Potentially dead", "Low usage"} :
        \E i \in DOMAIN stdout : stdout[i].kind = k

HasError(text) ==
    \E i \in DOMAIN stderr : stderr[i].level = "ERROR" /\ stderr[i].text = text

\* C7 as stated: once the walk has found a file, the finished run has
\* written a report.
Claim_C7 == (pc = "done" /\ files # <<>>) => BannerPrinted

\* C7 amended: when the walk has found a file and a line that is read
\* declares a function, the finished run has the banner on stdout; when no
\* read line declares a function, it has printed nothing to stdout and
\* "No functions found" to the error stream.
Thm_C7 ==
    (pc = "done" /\ files # <<>>) =>
        IF HasReadDefinition
        THEN BannerPrinted
        ELSE stdout = <<>> /\ HasError("No functions found")

\* C7 witness: the only file found cannot be read to its end, one
\* declaration was read before the failure, and the report is written.
Wit_C7 ==
    /\ pc = "done"
    /\ Len(files) = 1
    /\ \E e \in fs.entries : e.path = files[1] /\ e.fails
    /\ HasReadDefinition
    /\ BannerPrinted

\* No entry below the root has a name ending in ".go".
NoMatchingFile ==
    \A e \in fs.entries : ~EndsWithChars(Chars(e.path[Len(e.path)]), <<".", "g", "o">>)

\* C8: when nothing matches the pattern, nothing is printed to stdout, no
\* file is opened, neither pass runs, and the finished run has put an error
\* on the error stream.
Thm_C8 ==
    NoMatchingFile =>
        /\ stdout = <<>>
        /\ \A i \in DOMAIN io : io[i].op # "open"
        /\ pc \notin {"definitions", "references", "analyze", "print"}
        /\ DOMAIN functions = {} /\ DOMAIN counters = {} /\ DOMAIN references = {}
        /\ pc = "done" => \E i \in DOMAIN stderr : stderr[i].level = "ERROR"

\* C8 witness: the tree has an entry, none matches, the walk has run and
\* the run has ended with "No Go files found".
Wit_C8 ==
    /\ pc = "done"
    /\ fs.entries # {}
    /\ NoMatchingFile
    /\ io = <<Rglob>>
    /\ HasError("No Go files found in current directory")

\* The three lines of the closing note, between two rules.
ClosingNote ==
    << "rule=",
       "NOTE: Exported functions (capitalized) are excluded by default.",
       "Use --include-exported to include them.",
       "False positives may occur for reflection, interfaces, or external usage.",
       "rule=" >>

\* C9: every report written to stdout ends with the closing note.
Claim_C9 ==
    (pc = "done" /\ stdout # <<>>) =>
        \E i \in DOMAIN stdout :
            /\ i + 4 <= Len(stdout)
            /\ \A k \in 0..4 : stdout[i + k].kind = ClosingNote[k + 1]
            /\ \A j \in (i + 5)..Len(stdout) : stdout[j].kind = "blank"

\* Kinds of the lines of the Dead and LowUsage sections.
DetailKinds ==
    {"POTENTIALLY DEAD CODE", "dead site", "No dead code candidates found",
     "LOW USAGE FUNCTIONS", "low site", "References", "All references",
     "ref location", "ref context", "more"}

StatisticsLine(kind, n) ==
    \E i \in DOMAIN stdout : stdout[i].kind = kind /\ stdout[i].num = n

\* C10: in summary-only mode the report has the four statistics lines with
\* the counts of the run and no line of the Dead or LowUsage section.
Thm_C10 ==
    (pc = "done" /\ argv.summary /\ stdout # <<>>) =>
        /\ StatisticsLine("Go files scanned", Len(files))
        /\ StatisticsLine("Functions found", Cardinality(DOMAIN functions))
        /\ StatisticsLine("Potentially dead", Len(dead_candidates))
        /\ StatisticsLine("Low usage", Len(low_usage))
        /\ \A i \in DOMAIN stdout : stdout[i].kind \notin DetailKinds

\* C10 witness: a summary-only run with show-refs and all-low-usage set that
\* found a dead and a low-usage symbol.
Wit_C10 ==
    /\ pc = "done"
    /\ argv.summary /\ argv.show_refs /\ argv.all_low_usage
    /\ dead_candidates # <<>>
    /\ low_usage # <<>>
    /\ stdout # <<>>

\* The entries the walk found whose read fails.
FailingFiles == {e \in fs.entries : e.fails /\ \E k \in DOMAIN files : files[k] = e.path}

\* The paths of the definition sites and of the counted occurrences.
SitePaths == UNION { {functions[n][i][1] : i \in DOMAIN functions[n]} : n \in DOMAIN functions }
OccurrencePaths ==
    UNION { {references[n][i].loc[1] : i \in DOMAIN references[n]} : n \in DOMAIN references }

\* C11: a file whose read fails contributes no definition site and no
\* occurrence, a warning names it, and every file found is still opened in
\* both passes.
Claim_C11 ==
    Scanned =>
        /\ \A e \in FailingFiles :
              /\ e.path \notin SitePaths
              /\ e.path \notin OccurrencePaths
              /\ \E i \in DOMAIN stderr : stderr[i].level = "WARN" /\ stderr[i].path = e.path
        /\ \A k \in DOMAIN files :
              Cardinality({i \in DOMAIN io : io[i] = Open(files[k])}) = 2

\* find_files has returned.
Walked == io # <<>>

\* The matching entries whose path below the root has no excluded part.
ExpectedFiles ==
    {e.path : e \in {x \in fs.entries :
        /\ EndsWithChars(Chars(x.path[Len(x.path)]), <<".", "g", "o">>)
        /\ \A i \in DOMAIN x.path : x.path[i] \notin {"vendor", ".git", "testdata", "mocks"}}}

\* C12: find_files returns, strictly ascending, exactly the matching paths
\* with no excluded part below the root, whatever the root's ancestors are.
Claim_C12 ==
    Walked =>
        /\ {files[i] : i \in DOMAIN files} = ExpectedFiles
        /\ \A i, j \in DOMAIN files : i < j => PathLess(files[i], files[j])

\* C14: a second run with the same flags over the unchanged tree prints to
\* stdout exactly what the first run printed.
Thm_C14 == (run = 2 /\ pc = "done") => stdout = first_stdout

\* C14 witness: the second run has ended after printing a report with
\* reference listings over two files.
Wit_C14 ==
    /\ run = 2
    /\ pc = "done"
    /\ Len(files) = 2
    /\ argv.show_refs /\ ~argv.summary
    /\ dead_candidates # <<>>
    /\ low_usage # <<>>
    /\ stdout # <<>>

\* The orders in which the file set can be scanned, other than the one taken.
ScanOrders ==
    LET n == Len(files)
    IN  {w \in [1..n -> {files[i] : i \in 1..n}] :
            /\ \A i, j \in 1..n : w[i] = w[j] => i = j
            /\ w # files}

CandidateNames(list) == {list[i].name : i \in DOMAIN list}

NameBefore(v, w) == CodesLess(CharTable[v], CharTable[w])

\* The names of a list are in strictly ascending order.
Ascending(list) ==
    \A i, j \in DOMAIN list : i < j => NameBefore(list[i].name, list[j].name)

\* The symbols, counts and lists of the state are those that the
\* classification gives for the table `funs` and the references `refs`.
SameLists(funs, refs) ==
    /\ DOMAIN funs = DOMAIN functions
    /\ DOMAIN refs = DOMAIN counters
    /\ \A w \in DOMAIN refs : Len(refs[w]) = counters[w]
    /\ CandidateNames(DeadCandidates(funs, counters, args)) = DeadNames
    /\ CandidateNames(LowUsage(funs, counters, args)) = LowNames

\* The two passes and the classification, with the files scanned in `order`,
\* give the symbols, counts and lists of the state.
SameResult(order) ==
    \A funs \in {find_function_definitions(fs, order)} :
        \A refs \in {count_references(fs, order, DOMAIN funs)} :
            SameLists(funs, refs)

\* C13: the Dead list and the LowUsage list are each in strictly ascending
\* name order, and the symbols of each list and their occurrence counts are
\* the same for every other order in which the files could be scanned.
Thm_C13 ==
    Analyzed =>
        /\ Ascending(dead_candidates)
        /\ Ascending(low_usage)
        /\ \A order \in ScanOrders : SameResult(order)

\* C13 witness: two files were scanned, declared last name first, and both
\* lists hold several symbols.
Wit_C13 ==
    /\ pc = "done"
    /\ Len(files) = 2
    /\ Len(dead_candidates) >= 2
    /\ Len(low_usage) >= 2
    /\ functions[low_usage[1].name][1][2] > functions[low_usage[2].name][1][2]

\* The names on the LowUsage lines of stdout, and the lines of one name.
ShownLow == PrintedNames("low site")
LowSiteLines(n) == {i \in DOMAIN stdout : stdout[i].kind = "low site" /\ stdout[i].name = n}
MoreLines == {i \in DOMAIN stdout : stdout[i].kind = "more"}

\* C15: in a non-summary report with N LowUsage symbols, all-low-usage shows
\* all N and no note; otherwise the first min(20, N) in name order are shown,
\* each with all its definition sites, and a note with N - 20 is printed iff
\* N > 20; the banner's low-usage count is N either way.
Thm_C15 ==
    (pc = "done" /\ ~argv.summary /\ stdout # <<>>) =>
        LET N == Len(low_usage)
            shown == IF argv.all_low_usage \/ N <= 20 THEN N ELSE 20
        IN  /\ ShownLow = {low_usage[i].name : i \in 1..shown}
            /\ \A i \in 1..shown :
                  {<<stdout[k].path, stdout[k].num>> : k \in LowSiteLines(low_usage[i].name)}
                      = {low_usage[i].definitions[d] : d \in DOMAIN low_usage[i].definitions}
            /\ \A i \in 1..shown : \A j \in (shown + 1)..N :
                  NameBefore(low_usage[i].name, low_usage[j].name)
            /\ IF ~argv.all_low_usage /\ N > 20
               THEN Cardinality(MoreLines) = 1 /\ \A k \in MoreLines : stdout[k].num = N - 20
               ELSE MoreLines = {}
            /\ \E k \in DOMAIN stdout : stdout[k].kind = "Low usage" /\ stdout[k].num = N

\* C15 witness: 22 LowUsage symbols without all-low-usage: 20 are shown and
\* the note reports 2 more.
Wit_C15 ==
    /\ pc = "done"
    /\ ~argv.summary /\ ~argv.all_low_usage
    /\ Len(low_usage) = 22
    /\ Cardinality(ShownLow) = 20
    /\ \E k \in DOMAIN stdout : stdout[k].kind = "more" /\ stdout[k].num = 2

\* The parsed flags with include_tests the other way round.
TestsToggled == [args EXCEPT !.include_tests = ~args.include_tests]

====
